---- MODULE Spec2Model ----
(***************************************************************************)
(* Model of build_geom_dataset.py: conformer extraction into a flat atom   *)
(* table, regrouping and train/val/test splitting, the size-sorted         *)
(* dataset, the size-grouped batch sampler, the per-item transform and the *)
(* padded collate step.                                                    *)
(*                                                                         *)
(* Python positions are 0-based and are kept 0-based wherever they are     *)
(* values (sampler indices, split_indices, permutation entries); TLA+      *)
(* sequences are 1-based, so data_list[p] of the source is data_list[p+1]. *)
(*                                                                         *)
(* An atom row is a record: atomic_number, pos (standing for the x, y, z    *)
(* columns) and prop (standing for the broadcast property columns).  A     *)
(* molecule block is a sequence of rows; shape[0] is its length.           *)
(***************************************************************************)
EXTENDS Integers, Sequences, FiniteSets, TLC

\* ---------------------------------------------------------------- bounds
MaxMol == 4        \* blocks in a list handed to GeomDrugsDataset
MaxAtoms == 2      \* rows of one block
MaxBatch == 3      \* batch_size of a loader
MaxFiles == 2      \* entries of the archive directory
MaxConf == 2       \* conformers of one molecule, and args.conformations
MaxSplitMol == 3   \* molecule blocks in a saved atom table that is split
MaxPermLen == 4    \* molecule count the permutation artifact was made for

\* ------------------------------------------------------------- variables
VARIABLES
    \* GeomDrugsDataset / GeomDrugsDataLoader / CustomBatchSampler
    input_list,     \* the data_list argument of GeomDrugsDataset.__init__
    data_list,      \* self.data_list
    split_indices,  \* self.split_indices (array of 0-based positions)
    batch_size,     \* sampler.batch_size
    drop_last,      \* sampler.drop_last
    pc,             \* "new" | "dataset" | "iter" | "done"
    idx,            \* next index the SequentialSampler hands out
    batch,          \* the local list batch of __iter__
    emitted,        \* the batches yielded so far, in order
    length,         \* what __len__ returned, -1 before it is called
    \* GeomDrugsTransform / collate_fn (padded batching)
    items,          \* the blocks of one batch, as the dataset holds them
    sequential,     \* GeomDrugsTransform.sequential
    include_charges,\* GeomDrugsTransform.include_charges
    tpc,            \* "idle" | "fetch" | "collated"
    fetched,        \* transform outputs of the items fetched so far
    collated,       \* what collate_fn returned
    \* extract_conformers, and the regrouping of what it saved
    drugs_file,     \* os.listdir(base_dir): the files, in listing order
    conformations,  \* args.conformations
    remove_h,       \* args.remove_h
    epc,            \* "idle" | "loop" | "concat" | "save_table" |
                    \* "save_smiles" | "save_counts" | "done" | "fatal" |
                    \* "loaded"
    file_i,         \* files of drugs_file already visited
    all_smiles,
    all_number_atoms,
    dataset_conformers,
    mol_id,
    dataset,        \* np.vstack(dataset_conformers)
    written,        \* the artifacts written so far, of "table", "smiles",
                    \* "counts"
    file_table,     \* content of the saved atom table
    file_smiles,    \* content of the saved SMILES file
    file_counts,    \* content of the saved atom-count array
    loaded_list,    \* data_list of load_split_data after line 112
    \* load_split_data
    all_data,       \* np.load(conformation_file)
    perm,           \* np.load(geom_permutation.npy), 0-based entries
    val_proportion, \* <<numerator, denominator>>
    test_proportion,
    filter_size,    \* FilterNone or a size
    spc,            \* "idle" | "call" | "returned" | "assert"
    train_data,
    val_data,
    test_data

dsVars == <<input_list, data_list, split_indices, batch_size, drop_last,
            pc, idx, batch, emitted, length>>

trVars == <<items, sequential, include_charges, tpc, fetched, collated>>

exVars == <<drugs_file, conformations, remove_h, epc, file_i, all_smiles,
            all_number_atoms, dataset_conformers, mol_id, dataset, written,
            file_table, file_smiles, file_counts, loaded_list>>

spVars == <<all_data, perm, val_proportion, test_proportion, filter_size,
            spc, train_data, val_data, test_data>>

vars == <<dsVars, trVars, exVars, spVars>>

otherThanDs == <<trVars, exVars, spVars>>

otherThanTr == <<dsVars, exVars, spVars>>

otherThanEx == <<dsVars, trVars, spVars>>

otherThanSp == <<dsVars, trVars, exVars>>

\* ------------------------------------------------------- general helpers
Range(s) == {s[i] : i \in 1..Len(s)}

Min(S) == CHOOSE x \in S : \A y \in S : x <= y

Max(S) == CHOOSE x \in S : \A y \in S : x >= y

SeqsUpTo(S, n) == UNION {[1..k -> S] : k \in 0..n}

Perms(n) == {p \in [1..n -> 1..n] : \A i, j \in 1..n : i # j => p[i] # p[j]}

\* the elements of a finite set of integers, ascending
RECURSIVE Ascending(_)
Ascending(S) == IF S = {} THEN <<>> ELSE <<Min(S)>> \o Ascending(S \ {Min(S)})

\* number of rows of a block (ndarray.shape[0])
Shape0(block) == Len(block)

\* a block of n rows whose payload tells it apart from the other blocks
MakeBlock(tag, n) ==
    [j \in 1..n |-> [atomic_number |-> IF j % 2 = 1 THEN 6 ELSE 1,
                     pos |-> 10 * tag + j,
                     prop |-> tag]]

\* ------------------------------------------------------ GeomDrugsDataset
\* lengths = [s.shape[0] for s in data_list]
Lengths(dl) == [i \in 1..Len(dl) |-> Shape0(dl[i])]

\* np.argsort(lengths) with the default (not stable) kind: any permutation
\* that puts the lengths in non-decreasing order.  Entries are 1-based here.
NpArgsort(lengths) ==
    {p \in Perms(Len(lengths)) :
        \A i \in 1..(Len(lengths) - 1) : lengths[p[i]] <= lengths[p[i + 1]]}

\* np.sort(lengths)
NpSort(lengths) ==
    LET p == CHOOSE q \in NpArgsort(lengths) : TRUE
    IN  [i \in 1..Len(lengths) |-> lengths[p[i]]]

\* (variant: every position, as if no two values were equal)
NpUniqueEveryIndex(a) == [i \in 1..Len(a) |-> i - 1]

\* np.unique(a, return_index=True)[1]: for each distinct value, ascending,
\* the 0-based position of its first occurrence in a
NpUniqueIndex(a) ==
    LET vals == Ascending(Range(a))
    IN  [k \in 1..Len(vals) |-> Min({i \in 1..Len(a) : a[i] = vals[k]}) - 1]

\* s[1:]
Tail1(s) == IF Len(s) = 0 THEN <<>> ELSE Tail(s)

\* self.split_indices = np.unique(np.sort(lengths), return_index=True)[1][1:]
SplitIndicesOf(lengths) == Tail1(NpUniqueIndex(NpSort(lengths)))

\* --------------------------------------------------- CustomBatchSampler
\* SequentialSampler(dataset): 0, 1, ..., len(dataset) - 1
SequentialSampler(n) == [i \in 1..n |-> i - 1]

\* x in self.split_indices
InSplit(x, si) == x \in Range(si)

\* (variant: the boundary test of line 182 left out)
IterBodyNoBoundary(s, i, bs, si) ==
    LET b == Append(s.batch, i)
    IN  IF Len(b) = bs
        THEN [batch |-> <<>>, out |-> Append(s.out, b)]
        ELSE [batch |-> b, out |-> s.out]

\* one pass of the loop body of __iter__ on the generator state
\* s = [batch, out]: append, then yield and reset when the batch is full or
\* the next index is a recorded boundary
IterBody(s, i, bs, si) ==
    LET b == Append(s.batch, i)
    IN  IF Len(b) = bs \/ InSplit(i + 1, si)
        THEN [batch |-> <<>>, out |-> Append(s.out, b)]
        ELSE [batch |-> b, out |-> s.out]

\* (variants: the remainder always dropped, and never dropped)
IterTailDropAll(s, dl) == s.out

IterTailKeepAll(s, dl) ==
    IF Len(s.batch) > 0 THEN Append(s.out, s.batch) ELSE s.out

\* after the loop: if len(batch) > 0 and not self.drop_last: yield batch
IterTail(s, dl) ==
    IF Len(s.batch) > 0 /\ ~dl THEN Append(s.out, s.batch) ELSE s.out

RECURSIVE IterLoop(_, _, _, _, _)
IterLoop(s, sampler, k, bs, si) ==
    IF k > Len(sampler) THEN s
    ELSE IterLoop(IterBody(s, sampler[k], bs, si), sampler, k + 1, bs, si)

\* list(CustomBatchSampler(sampler, bs, dl, si)): every batch of one full
\* iteration
CustomBatchSampler_iter(sampler, bs, dl, si) ==
    IterTail(IterLoop([batch |-> <<>>, out |-> <<>>], sampler, 1, bs, si), dl)

\* the loop body of __len__ on the counters s = [batch, count]
LenBody(s, i, bs, si) ==
    IF s.batch + 1 = bs \/ InSplit(i + 1, si)
    THEN [batch |-> 0, count |-> s.count + 1]
    ELSE [batch |-> s.batch + 1, count |-> s.count]

LenTail(s, dl) == IF s.batch > 0 /\ ~dl THEN s.count + 1 ELSE s.count

RECURSIVE LenLoop(_, _, _, _, _)
LenLoop(s, sampler, k, bs, si) ==
    IF k > Len(sampler) THEN s
    ELSE LenLoop(LenBody(s, sampler[k], bs, si), sampler, k + 1, bs, si)

\* (variant: the count of plain fixed-size batching)
CustomBatchSampler_lenCeil(sampler, bs, dl, si) ==
    (Len(sampler) + bs - 1) \div bs

\* CustomBatchSampler.__len__
CustomBatchSampler_len(sampler, bs, dl, si) ==
    LenTail(LenLoop([batch |-> 0, count |-> 0], sampler, 1, bs, si), dl)

\* --------------------------------------------------- GeomDrugsTransform
\* dataset_info['atomic_nb']: the vocabulary of atomic numbers
AtomicNb == <<1, 6>>

\* lines 265-267: ones((n, n)), then every entry selected by ~eye set to 0,
\* flattened row-major: entry (i, j) is at i * n + j (0-based)
TransformEdgeMask(n) ==
    [r \in 1..(n * n) |-> IF (r - 1) \div n = (r - 1) % n THEN 1 ELSE 0]

\* GeomDrugsTransform.__call__
Transform(data, seq, charges) ==
    LET n == Shape0(data)
        new_data ==
            [positions |-> [i \in 1..n |-> data[i].pos],
             one_hot   |-> [i \in 1..n |->
                              [k \in 1..Len(AtomicNb) |->
                                  data[i].atomic_number = AtomicNb[k]]],
             context   |-> [i \in 1..n |-> <<data[i].prop>>],
             charges   |-> IF charges THEN [i \in 1..n |-> <<0>>] ELSE <<>>,
             atom_mask |-> [i \in 1..n |-> 1]]
    IN  IF seq THEN new_data @@ [edge_mask |-> TransformEdgeMask(n)]
        ELSE new_data

\* ------------------------------------------------------------ collate_fn
\* the zero that pads one entry of a field along the atom dimension
PadValue(prop) ==
    CASE prop = "one_hot" -> [k \in 1..Len(AtomicNb) |-> FALSE]
      [] prop \in {"context", "charges"} -> <<0>>
      [] OTHER -> 0

\* qm9_collate.batch_stack on tensors of one or more dimensions: stacked,
\* each padded with zeros up to the longest
BatchStack(props, pad) ==
    LET n == Max({Len(props[b]) : b \in 1..Len(props)})
    IN  [b \in 1..Len(props) |->
            [i \in 1..n |-> IF i <= Len(props[b]) THEN props[b][i] ELSE pad]]

\* (variant: the diagonal mask of lines 212-214 left out)
CollateEdgeMaskKeepDiagonal(atom_mask) ==
    LET bsz == Len(atom_mask)
        n_nodes == Len(atom_mask[1])
    IN  [r \in 1..(bsz * n_nodes * n_nodes) |->
            LET b == (r - 1) \div (n_nodes * n_nodes)
                i == ((r - 1) % (n_nodes * n_nodes)) \div n_nodes
                j == (r - 1) % n_nodes
            IN  <<atom_mask[b + 1][j + 1] * atom_mask[b + 1][i + 1]>>]

\* lines 208-217: outer product of the padded atom mask with itself per
\* batch element, diagonal zeroed, viewed as batch_size * n * n rows of one
\* column (row b * n * n + i * n + j, 0-based)
CollateEdgeMask(atom_mask) ==
    LET bsz == Len(atom_mask)
        n_nodes == Len(atom_mask[1])
    IN  [r \in 1..(bsz * n_nodes * n_nodes) |->
            LET b == (r - 1) \div (n_nodes * n_nodes)
                i == ((r - 1) % (n_nodes * n_nodes)) \div n_nodes
                j == (r - 1) % n_nodes
                diag_mask == IF i = j THEN 0 ELSE 1
            IN  <<atom_mask[b + 1][j + 1] * atom_mask[b + 1][i + 1]
                    * diag_mask>>]

\* collate_fn(batch)
collate_fn(mols) ==
    LET stacked == [prop \in DOMAIN mols[1] |->
                       BatchStack([b \in 1..Len(mols) |-> mols[b][prop]],
                                  PadValue(prop))]
    IN  [prop \in (DOMAIN stacked) \cup {"edge_mask"} |->
            IF prop = "edge_mask" THEN CollateEdgeMask(stacked["atom_mask"])
            ELSE stacked[prop]]

\* ---------------------------------------------------- extract_conformers
\* filter_size=None, the default of load_split_data
FilterNone == -1

\* the molecules an archive file may hold: SMILES and the atomic numbers of
\* the atoms of its rd_mol (hydrogens explicit)
Molecules ==
    {[smiles |-> "[H][H]", atoms |-> <<1, 1>>],
     [smiles |-> "C",      atoms |-> <<6, 1>>],
     [smiles |-> "O",      atoms |-> <<1, 8, 1>>]}

\* a directory entry: a pickle of one molecule with nconf conformers, or a
\* file whose name does not end in 'pickle'
DirEntries ==
    {[pickle |-> TRUE, smiles |-> m.smiles, atoms |-> m.atoms, nconf |-> c] :
        m \in Molecules, c \in 0..MaxConf}
    \cup {[pickle |-> FALSE, smiles |-> "", atoms |-> <<>>, nconf |-> 0]}

\* lines 57-59: a shuffled list(range(n)), cut to its first k entries
\* (conformer ids, 0-based)
ShuffledPrefix(n, k) ==
    {[i \in 1..(IF k < n THEN k ELSE n) |-> p[i] - 1] : p \in Perms(n)}

\* lines 63-66: one row per atom of conformer id of file f
Coords(f, id, atoms) ==
    [a \in 1..Len(atoms) |->
        [atomic_number |-> atoms[a],
         pos  |-> 100 * f + 10 * id + a,
         prop |-> 10 * f + id]]

\* lines 67-69: coords[coords[:, 0] != 1.0]
RemoveH(coords) == SelectSeq(coords, LAMBDA r : r.atomic_number # 1)

\* lines 72-74: the id column in front of every row
IdCoords(id_value, coords) ==
    [a \in 1..Len(coords) |->
        [mol_id |-> id_value,
         atomic_number |-> coords[a].atomic_number,
         pos  |-> coords[a].pos,
         prop |-> coords[a].prop]]

\* lines 60-77 for the conformer ids of one file, on the accumulators
\* s = [all_number_atoms, dataset_conformers, mol_id]
RECURSIVE AddConformers(_, _, _, _, _, _)
AddConformers(s, f, atoms, ids, k, rm_h) ==
    IF k > Len(ids) THEN s
    ELSE LET full == Coords(f, ids[k], atoms)
             coords == IF rm_h THEN RemoveH(full) ELSE full
             n == Len(coords)
         IN  AddConformers(
                 [all_number_atoms |-> Append(s.all_number_atoms, n),
                  dataset_conformers |->
                      Append(s.dataset_conformers, IdCoords(s.mol_id, coords)),
                  mol_id |-> s.mol_id + 1],
                 f, atoms, ids, k + 1, rm_h)

\* the rows of all arrays in order
RECURSIVE ConcatRows(_)
ConcatRows(arrays) ==
    IF arrays = <<>> THEN <<>> ELSE Head(arrays) \o ConcatRows(Tail(arrays))

\* (variant: an empty list of arrays gives an empty table)
NpVstackLenient(arrays) == [ok |-> TRUE, rows |-> ConcatRows(arrays)]

\* np.vstack(arrays): the rows of all arrays in order; an empty list of
\* arrays raises ValueError
NpVstack(arrays) ==
    IF Len(arrays) = 0 THEN [ok |-> FALSE, rows |-> <<>>]
    ELSE [ok |-> TRUE, rows |-> ConcatRows(arrays)]

\* ------------------------------------------------------- load_split_data
\* seq[a:b] with 0 <= a
Slice(seq, a, b) ==
    LET hi == IF b < Len(seq) THEN b ELSE Len(seq)
    IN  IF a >= hi THEN <<>> ELSE SubSeq(seq, a + 1, hi)

\* np.split(seq, indices) along the first axis, indices ascending
NpSplit(seq, indices) ==
    [k \in 1..(Len(indices) + 1) |->
        Slice(seq,
              IF k = 1 THEN 0 ELSE indices[k - 1],
              IF k = Len(indices) + 1 THEN Len(seq) ELSE indices[k])]

\* all_data[:, 1:]
DropIdColumn(rows) ==
    [a \in 1..Len(rows) |->
        [atomic_number |-> rows[a].atomic_number,
         pos  |-> rows[a].pos,
         prop |-> rows[a].prop]]

\* line 111: np.nonzero(mol_id[:-1] - mol_id[1:])[0] + 1
IdBoundaries(rows) ==
    Ascending({i \in 1..(Len(rows) - 1) :
                  rows[i].mol_id - rows[i + 1].mol_id # 0})

\* lines 108-112: the table cut into blocks where the molecule id changes
Regroup(rows) == NpSplit(DropIdColumn(rows), IdBoundaries(rows))

\* lines 115-118
FilterBySize(dl, fs) ==
    IF fs = FilterNone THEN dl
    ELSE SelectSeq(dl, LAMBDA molecule : Shape0(molecule) <= fs)

\* line 134: [data_list[i] for i in perm if i < len(data_list)]
Reindex(dl, pm) ==
    LET kept == SelectSeq(pm, LAMBDA i : i < Len(dl))
    IN  [k \in 1..Len(kept) |-> dl[kept[k] + 1]]

\* int(num_mol * proportion), the proportion an exact fraction
IntOfProduct(num_mol, proportion) ==
    (num_mol * proportion[1]) \div proportion[2]

\* lines 106-140; status "assert" is the failed assertion of line 120.
\* np.split of line 139 is taken on the list of blocks as an array of
\* objects: it slices the list
load_split_data(rows, val_p, test_p, fs, pm) ==
    LET filtered == FilterBySize(Regroup(rows), fs)
        dl == Reindex(filtered, pm)
        num_mol == Len(dl)
        val_index == IntOfProduct(num_mol, val_p)
        test_index == val_index + IntOfProduct(num_mol, test_p)
        parts == NpSplit(dl, <<val_index, test_index>>)
    IN  IF fs # FilterNone /\ Len(filtered) = 0
        THEN [status |-> "assert", train |-> <<>>, val |-> <<>>,
              test |-> <<>>]
        ELSE [status |-> "returned", train |-> parts[3], val |-> parts[1],
              test |-> parts[2]]

\* ---------------------------------------------- dataset / sampler actions
DsIdle ==
    /\ input_list = <<>>
    /\ data_list = <<>>
    /\ split_indices = <<>>
    /\ batch_size = 1
    /\ drop_last = FALSE
    /\ pc = "idle"
    /\ idx = 0
    /\ batch = <<>>
    /\ emitted = <<>>
    /\ length = -1

DsInit ==
    /\ \E sizes \in SeqsUpTo(0..MaxAtoms, MaxMol) :
          input_list = [k \in 1..Len(sizes) |-> MakeBlock(k, sizes[k])]
    /\ data_list = <<>>
    /\ split_indices = <<>>
    /\ batch_size = 1
    /\ drop_last = FALSE
    /\ pc = "new"
    /\ idx = 0
    /\ batch = <<>>
    /\ emitted = <<>>
    /\ length = -1

\* GeomDrugsDataset.__init__
DatasetInit ==
    /\ pc = "new"
    /\ \E argsort \in NpArgsort(Lengths(input_list)) :
          data_list' = [i \in 1..Len(input_list) |-> input_list[argsort[i]]]
    /\ split_indices' = SplitIndicesOf(Lengths(input_list))
    /\ pc' = "dataset"
    /\ UNCHANGED <<input_list, batch_size, drop_last, idx, batch, emitted,
                   length>>
    /\ UNCHANGED otherThanDs

\* GeomDrugsDataLoader.__init__ with sequential=True, shuffle=False, and the
\* start of one iteration of its batch sampler
LoaderInit ==
    /\ pc = "dataset"
    /\ \E bs \in 1..MaxBatch, dl \in BOOLEAN :
          /\ batch_size' = bs
          /\ drop_last' = dl
    /\ idx' = 0
    /\ batch' = <<>>
    /\ emitted' = <<>>
    /\ pc' = "iter"
    /\ UNCHANGED <<input_list, data_list, split_indices, length>>
    /\ UNCHANGED otherThanDs

\* one turn of "for idx in self.sampler" in __iter__
IterStep ==
    /\ pc = "iter"
    /\ idx < Len(data_list)
    /\ LET s == IterBody([batch |-> batch, out |-> emitted],
                         SequentialSampler(Len(data_list))[idx + 1],
                         batch_size, split_indices)
       IN  /\ batch' = s.batch
           /\ emitted' = s.out
    /\ idx' = idx + 1
    /\ UNCHANGED <<input_list, data_list, split_indices, batch_size,
                   drop_last, pc, length>>
    /\ UNCHANGED otherThanDs

\* the sampler is exhausted: the statement after the loop
IterEnd ==
    /\ pc = "iter"
    /\ idx = Len(data_list)
    /\ emitted' = IterTail([batch |-> batch, out |-> emitted], drop_last)
    /\ batch' = <<>>
    /\ pc' = "done"
    /\ UNCHANGED <<input_list, data_list, split_indices, batch_size,
                   drop_last, idx, length>>
    /\ UNCHANGED otherThanDs

\* len(batch_sampler)
LenCall ==
    /\ pc = "done"
    /\ length = -1
    /\ length' = CustomBatchSampler_len(SequentialSampler(Len(data_list)),
                                        batch_size, drop_last, split_indices)
    /\ UNCHANGED <<input_list, data_list, split_indices, batch_size,
                   drop_last, pc, idx, batch, emitted>>
    /\ UNCHANGED otherThanDs


\* ------------------------------------------- transform / collate actions
TrIdle ==
    /\ items = <<>>
    /\ sequential = FALSE
    /\ include_charges = FALSE
    /\ tpc = "idle"
    /\ fetched = <<>>
    /\ collated = <<>>

\* a transform is configured and the default sampler has drawn the indices
\* of one batch: its blocks are of any sizes
TrInit ==
    /\ \E sizes \in SeqsUpTo(0..MaxAtoms, MaxBatch) :
          /\ Len(sizes) >= 1
          /\ items = [k \in 1..Len(sizes) |-> MakeBlock(k, sizes[k])]
    /\ sequential \in BOOLEAN
    /\ include_charges \in BOOLEAN
    /\ tpc = "fetch"
    /\ fetched = <<>>
    /\ collated = <<>>

\* GeomDrugsDataset.__getitem__ on the next index of the batch
GetItem ==
    /\ tpc = "fetch"
    /\ Len(fetched) < Len(items)
    /\ fetched' = Append(fetched,
                         Transform(items[Len(fetched) + 1], sequential,
                                   include_charges))
    /\ UNCHANGED <<items, sequential, include_charges, tpc, collated>>
    /\ UNCHANGED otherThanTr

\* the loader hands the fetched items to collate_fn
Collate ==
    /\ tpc = "fetch"
    /\ Len(fetched) = Len(items)
    /\ collated' = collate_fn(fetched)
    /\ tpc' = "collated"
    /\ UNCHANGED <<items, sequential, include_charges, fetched>>
    /\ UNCHANGED otherThanTr

\* ------------------------------------------------------- extract actions
ExIdle ==
    /\ drugs_file = <<>>
    /\ conformations = 0
    /\ remove_h = FALSE
    /\ epc = "idle"
    /\ file_i = 0
    /\ all_smiles = <<>>
    /\ all_number_atoms = <<>>
    /\ dataset_conformers = <<>>
    /\ mol_id = 0
    /\ dataset = <<>>
    /\ written = {}
    /\ file_table = <<>>
    /\ file_smiles = <<>>
    /\ file_counts = <<>>
    /\ loaded_list = <<>>

\* extract_conformers(args) up to the loop, lines 32-42
ExInit ==
    /\ drugs_file \in SeqsUpTo(DirEntries, MaxFiles)
    /\ conformations \in 0..MaxConf
    /\ remove_h \in BOOLEAN
    /\ epc = "loop"
    /\ file_i = 0
    /\ all_smiles = <<>>
    /\ all_number_atoms = <<>>
    /\ dataset_conformers = <<>>
    /\ mol_id = 0
    /\ dataset = <<>>
    /\ written = {}
    /\ file_table = <<>>
    /\ file_smiles = <<>>
    /\ file_counts = <<>>
    /\ loaded_list = <<>>

\* one turn of the loop over drugs_file on a file that is not a pickle:
\* continue, lines 45-46
SkipFile ==
    /\ epc = "loop"
    /\ file_i < Len(drugs_file)
    /\ ~drugs_file[file_i + 1].pickle
    /\ file_i' = file_i + 1
    /\ UNCHANGED <<written, drugs_file, conformations, remove_h, epc,
                   all_smiles, all_number_atoms, dataset_conformers, mol_id,
                   dataset, file_table, file_smiles, file_counts,
                   loaded_list>>
    /\ UNCHANGED otherThanEx

\* one turn of the loop over drugs_file on a pickle, lines 47-77
ProcessFile ==
    /\ epc = "loop"
    /\ file_i < Len(drugs_file)
    /\ drugs_file[file_i + 1].pickle
    /\ LET drug_pkl == drugs_file[file_i + 1]
       IN  /\ all_smiles' = Append(all_smiles, drug_pkl.smiles)
           /\ \E lowest_energies \in
                    ShuffledPrefix(drug_pkl.nconf, conformations) :
                 LET s == AddConformers(
                              [all_number_atoms |-> all_number_atoms,
                               dataset_conformers |-> dataset_conformers,
                               mol_id |-> mol_id],
                              file_i + 1, drug_pkl.atoms, lowest_energies, 1,
                              remove_h)
                 IN  /\ all_number_atoms' = s.all_number_atoms
                     /\ dataset_conformers' = s.dataset_conformers
                     /\ mol_id' = s.mol_id
    /\ file_i' = file_i + 1
    /\ UNCHANGED <<written, drugs_file, conformations, remove_h, epc,
                   dataset, file_table, file_smiles, file_counts,
                   loaded_list>>
    /\ UNCHANGED otherThanEx

\* the directory is exhausted
LoopEnd ==
    /\ epc = "loop"
    /\ file_i = Len(drugs_file)
    /\ epc' = "concat"
    /\ UNCHANGED <<written, drugs_file, conformations, remove_h, file_i,
                   all_smiles, all_number_atoms, dataset_conformers, mol_id,
                   dataset, file_table, file_smiles, file_counts,
                   loaded_list>>
    /\ UNCHANGED otherThanEx

\* lines 79-84: np.vstack; its ValueError ends the run
Concat ==
    /\ epc = "concat"
    /\ LET r == NpVstack(dataset_conformers)
       IN  IF r.ok
           THEN /\ dataset' = r.rows
                /\ epc' = "save_table"
           ELSE /\ dataset' = dataset
                /\ epc' = "fatal"
    /\ UNCHANGED <<written, drugs_file, conformations, remove_h, file_i,
                   all_smiles, all_number_atoms, dataset_conformers, mol_id,
                   file_table, file_smiles, file_counts, loaded_list>>
    /\ UNCHANGED otherThanEx

\* line 87
SaveTable ==
    /\ epc = "save_table"
    /\ file_table' = dataset
    /\ written' = written \cup {"table"}
    /\ epc' = "save_smiles"
    /\ UNCHANGED <<drugs_file, conformations, remove_h, file_i, all_smiles,
                   all_number_atoms, dataset_conformers, mol_id, dataset,
                   file_smiles, file_counts, loaded_list>>
    /\ UNCHANGED otherThanEx

\* lines 89-92
SaveSmiles ==
    /\ epc = "save_smiles"
    /\ file_smiles' = all_smiles
    /\ written' = written \cup {"smiles"}
    /\ epc' = "save_counts"
    /\ UNCHANGED <<drugs_file, conformations, remove_h, file_i, all_smiles,
                   all_number_atoms, dataset_conformers, mol_id, dataset,
                   file_table, file_counts, loaded_list>>
    /\ UNCHANGED otherThanEx

\* line 95
SaveCounts ==
    /\ epc = "save_counts"
    /\ file_counts' = all_number_atoms
    /\ written' = written \cup {"counts"}
    /\ epc' = "done"
    /\ UNCHANGED <<drugs_file, conformations, remove_h, file_i, all_smiles,
                   all_number_atoms, dataset_conformers, mol_id, dataset,
                   file_table, file_smiles, loaded_list>>
    /\ UNCHANGED otherThanEx

\* load_split_data on the saved table, up to the regrouping of line 112
LoadRegroup ==
    /\ epc = "done"
    /\ loaded_list' = Regroup(file_table)
    /\ epc' = "loaded"
    /\ UNCHANGED <<written, drugs_file, conformations, remove_h, file_i,
                   all_smiles, all_number_atoms, dataset_conformers, mol_id,
                   dataset, file_table, file_smiles, file_counts>>
    /\ UNCHANGED otherThanEx

\* --------------------------------------------------------- split actions
\* what an atom table holds: non-empty blocks in order of ascending
\* molecule id (a block left without rows contributes nothing)
TableOf(sizes) ==
    ConcatRows([k \in 1..Len(sizes) |->
                   IdCoords(k - 1, MakeBlock(k, sizes[k]))])

\* proportions of one whole
Proportions == {<<1, 10>>, <<1, 3>>, <<1, 2>>}

SpIdle ==
    /\ all_data = <<>>
    /\ perm = <<>>
    /\ val_proportion = <<1, 10>>
    /\ test_proportion = <<1, 10>>
    /\ filter_size = FilterNone
    /\ spc = "idle"
    /\ train_data = <<>>
    /\ val_data = <<>>
    /\ test_data = <<>>

\* a call of load_split_data: a saved table, the persisted permutation of
\* 0..m-1 for some molecule count m, and the arguments
SpInit ==
    /\ \E sizes \in SeqsUpTo(1..MaxAtoms, MaxSplitMol) :
          all_data = TableOf(sizes)
    /\ \E m \in 1..MaxPermLen : \E p \in Perms(m) :
          perm = [k \in 1..m |-> p[k] - 1]
    /\ val_proportion \in Proportions
    /\ test_proportion \in Proportions
    /\ filter_size \in {FilterNone} \cup 1..MaxAtoms
    /\ spc = "call"
    /\ train_data = <<>>
    /\ val_data = <<>>
    /\ test_data = <<>>

\* load_split_data returns
LoadSplit ==
    /\ spc = "call"
    /\ LET r == load_split_data(all_data, val_proportion, test_proportion,
                                filter_size, perm)
       IN  /\ spc' = r.status
           /\ train_data' = r.train
           /\ val_data' = r.val
           /\ test_data' = r.test
    /\ UNCHANGED <<all_data, perm, val_proportion, test_proportion,
                   filter_size>>
    /\ UNCHANGED otherThanSp

\* -------------------------------------------------------- specifications
\* the size-sorted dataset and the size-grouped sampler
Init == DsInit /\ TrIdle /\ ExIdle /\ SpIdle

Next == DatasetInit \/ LoaderInit \/ IterStep \/ IterEnd \/ LenCall

Spec == Init /\ [][Next]_vars

\* the per-item transform and the padded collate step
InitCollate == TrInit /\ DsIdle /\ ExIdle /\ SpIdle

NextCollate == GetItem \/ Collate

SpecCollate == InitCollate /\ [][NextCollate]_vars

\* extraction into the three artifacts, and the regrouping of the table
InitExtract == ExInit /\ DsIdle /\ TrIdle /\ SpIdle

NextExtract ==
    \/ SkipFile
    \/ ProcessFile
    \/ LoopEnd
    \/ Concat
    \/ SaveTable
    \/ SaveSmiles
    \/ SaveCounts
    \/ LoadRegroup

SpecExtract == InitExtract /\ [][NextExtract]_vars

\* the train/val/test split of a saved table
InitSplit == SpInit /\ DsIdle /\ TrIdle /\ ExIdle

NextSplit == LoadSplit

SpecSplit == InitSplit /\ [][NextSplit]_vars

\* ------------------------------------------- properties: dataset, sampler
Sizes == Lengths(data_list)

Sampler == SequentialSampler(Len(data_list))

\* C1: every batch the size-grouped sampler has emitted holds only indices
\* of blocks with one and the same row count.
C1_BatchesSizeHomogeneous ==
    \A k \in 1..Len(emitted) :
        \A i, j \in Range(emitted[k]) :
            Shape0(data_list[i + 1]) = Shape0(data_list[j + 1])

\* a finished iteration over at least two sizes in which a batch of two or
\* more indices was emitted and a batch was cut short at a size boundary
C1_Witness ==
    /\ pc = "done"
    /\ Cardinality(Range(Sizes)) >= 2
    /\ \E k \in 1..Len(emitted) : Len(emitted[k]) >= 2
    /\ \E k \in 1..(Len(emitted) - 1) : Len(emitted[k]) < batch_size

\* how many positions of list dl hold block b
Occurrences(b, dl) == Cardinality({i \in 1..Len(dl) : dl[i] = b})

C5_WitnessDegenerate ==
    /\ pc = "dataset"
    /\ Len(input_list) = 0

\* C7: __len__ returns the number of batches __iter__ emitted over the same
\* sampler, batch_size, drop_last and split_indices.
C7_LenMatchesIter ==
    length # -1 => length = Len(emitted)

\* __len__ was called after an iteration that dropped a remainder and cut a
\* batch at a boundary
C7_Witness ==
    /\ length # -1
    /\ drop_last
    /\ Len(data_list) > 0
    /\ Len(split_indices) >= 1
    /\ length # (Len(data_list) + batch_size - 1) \div batch_size

\* the maximal runs of equal row count in the sorted list, as pairs
\* <<first, last>> of 0-based positions, left to right
RunStarts == {0} \cup {p \in 1..(Len(data_list) - 1) : Sizes[p + 1] # Sizes[p]}

RunOf(first) ==
    <<first,
      Max({q \in first..(Len(data_list) - 1) :
              \A r \in first..q : Sizes[r + 1] = Sizes[first + 1]})>>

\* a run cut into consecutive chunks of bs indices, the last possibly shorter
ChunksOfRun(run, bs) ==
    LET n == run[2] - run[1] + 1
        chunks == (n + bs - 1) \div bs
    IN  [c \in 1..chunks |->
            [j \in 1..(IF c < chunks THEN bs ELSE n - (chunks - 1) * bs) |->
                run[1] + (c - 1) * bs + (j - 1)]]

RECURSIVE ConcatAll(_)
ConcatAll(ss) == IF ss = <<>> THEN <<>> ELSE Head(ss) \o ConcatAll(Tail(ss))

ReferenceChunking(bs) ==
    IF Len(data_list) = 0 THEN <<>>
    ELSE LET starts == Ascending(RunStarts)
         IN  ConcatAll([k \in 1..Len(starts) |->
                           ChunksOfRun(RunOf(starts[k]), bs)])

\* C9: with drop_last = false the emitted batches are the reference
\* chunking of the runs of equal size; no batch is empty or longer than
\* batch_size; concatenated they are 0, 1, ..., n-1; and the scenario of
\* sorted sizes [3,3,3,3,5,5,5,5,7,7] with batch_size 3 gives
\* [0,1,2],[3],[4,5,6],[7],[8,9].
C9_KeepLastIsReferenceChunking ==
    (pc = "done" /\ ~drop_last) =>
        /\ emitted = ReferenceChunking(batch_size)
        /\ \A k \in 1..Len(emitted) :
              Len(emitted[k]) >= 1 /\ Len(emitted[k]) <= batch_size
        /\ ConcatAll(emitted) = Sampler
        /\ CustomBatchSampler_iter(
               SequentialSampler(10), 3, FALSE,
               Tail1(NpUniqueIndex(<<3, 3, 3, 3, 5, 5, 5, 5, 7, 7>>)))
             = << <<0, 1, 2>>, <<3>>, <<4, 5, 6>>, <<7>>, <<8, 9>> >>

\* a finished drop_last = false iteration in which a run was cut into a full
\* chunk and a shorter one, followed by a further run
C9_Witness ==
    /\ pc = "done"
    /\ ~drop_last
    /\ batch_size >= 2
    /\ \E k \in 1..(Len(emitted) - 2) :
          /\ Len(emitted[k]) = batch_size
          /\ Len(emitted[k + 1]) < batch_size
          /\ Sizes[emitted[k][1] + 1] = Sizes[emitted[k + 1][1] + 1]

KeepLastBatches ==
    CustomBatchSampler_iter(Sampler, batch_size, FALSE, split_indices)

EndsWithRemainder ==
    IterLoop([batch |-> <<>>, out |-> <<>>], Sampler, 1, batch_size,
             split_indices).batch # <<>>

\* C10: the batches emitted with drop_last = true are those emitted with
\* drop_last = false, less the final batch exactly when the traversal ends
\* with a non-empty unflushed remainder, which is exactly when the final
\* batch is shorter than batch_size; short batches flushed earlier at a
\* size boundary stay.
C10_DropLastOmitsOnlyRemainder ==
    (pc = "done" /\ drop_last) =>
        /\ EndsWithRemainder <=>
              /\ KeepLastBatches # <<>>
              /\ Len(KeepLastBatches[Len(KeepLastBatches)]) < batch_size
        /\ emitted = IF EndsWithRemainder
                     THEN SubSeq(KeepLastBatches, 1, Len(KeepLastBatches) - 1)
                     ELSE KeepLastBatches

\* a finished drop_last = true iteration that dropped its remainder and
\* still emitted a short batch flushed at a boundary
C10_Witness ==
    /\ pc = "done"
    /\ drop_last
    /\ EndsWithRemainder
    /\ \E k \in 1..Len(emitted) : Len(emitted[k]) < batch_size

\* ------------------------------------------ properties: transform, collate
AtomCount(b) == Shape0(items[b + 1])

MaxAtomCount == Max({Shape0(items[k]) : k \in 1..Len(items)})

\* C3: collate_fn's edge_mask has batch_size * n * n rows of one column, n
\* the largest atom count of the batch; read as a batch_size x n x n array
\* it is 0 at every (b, i, i) and, for i # j, 1 exactly when i and j are both
\* below the atom count of item b.
C3_CollateEdgeMask ==
    tpc = "collated" =>
        LET n == MaxAtomCount
            em == collated["edge_mask"]
        IN  /\ Len(em) = Len(items) * n * n
            /\ \A b \in 0..(Len(items) - 1) : \A i, j \in 0..(n - 1) :
                  em[b * n * n + i * n + j + 1] =
                      <<IF i # j /\ i < AtomCount(b) /\ j < AtomCount(b)
                        THEN 1 ELSE 0>>

\* a collated batch of items of different atom counts, one with two or more
\* atoms, so that real pairs, padded pairs and diagonal entries all occur
C3_Witness ==
    /\ tpc = "collated"
    /\ MaxAtomCount >= 2
    /\ \E b \in 0..(Len(items) - 1) :
          AtomCount(b) >= 1 /\ AtomCount(b) < MaxAtomCount

\* C4: in size-grouped mode the transform emits, for a block of n atoms, an
\* n x n edge_mask with 1 at every off-diagonal entry and 0 on the diagonal.
C4_SequentialEdgeMask ==
    sequential =>
        \A k \in 1..Len(fetched) :
            LET n == Shape0(items[k])
                em == fetched[k]["edge_mask"]
            IN  /\ Len(em) = n * n
                /\ \A i, j \in 0..(n - 1) :
                      em[i * n + j + 1] = IF i = j THEN 0 ELSE 1

\* ---------------------------------------------- properties: extraction
\* the blocks extract_conformers emitted, without the id column
EmittedBlocks ==
    [k \in 1..Len(dataset_conformers) |-> DropIdColumn(dataset_conformers[k])]

\* C6: the saved table, re-split where molecule_id changes, gives back the
\* emitted blocks: as many, in the same order, with the same rows, and with
\* row counts equal entry by entry to the saved atom-count array (blocks
\* left with zero rows by hydrogen removal included).
C6_RegroupRoundTrip ==
    epc = "loaded" =>
        /\ Len(loaded_list) = Len(EmittedBlocks)
        /\ loaded_list = EmittedBlocks
        /\ Lengths(loaded_list) = file_counts

\* C8: when no conformer has been produced, nothing has been written, and
\* once the loop is over the run is at the concatenation or has ended in
\* its fatal error.
C8_ZeroConformersFatal ==
    Len(dataset_conformers) = 0 =>
        /\ written = {}
        /\ epc \in {"loop", "concat", "fatal"}

\* a run that ended in the fatal error although a recognized molecule with
\* conformers was read (conformations = 0)
C8_Witness ==
    /\ epc = "fatal"
    /\ conformations = 0
    /\ \E f \in 1..Len(drugs_file) :
          drugs_file[f].pickle /\ drugs_file[f].nconf > 0
    /\ \E f \in 1..Len(drugs_file) : ~drugs_file[f].pickle

\* ---------------------------------------------------- properties: split
\* the molecule blocks of the table, counted after the optional size filter
TableBlocks == FilterBySize(Regroup(all_data), filter_size)

FloorOfProduct(n, proportion) == (n * proportion[1]) \div proportion[2]

\* C2: load_split_data returns val, test and train of sizes
\* floor(n * val_frac), floor(n * test_frac) and n minus both, n the number
\* of molecule blocks after the filter, whatever molecule count the
\* permutation artifact was made for; the three are pairwise disjoint and
\* together hold each of the n blocks exactly once.
C2_SplitPartitions ==
    spc = "returned" =>
        LET n == Len(TableBlocks)
            parts == val_data \o test_data \o train_data
        IN  /\ Len(val_data) = FloorOfProduct(n, val_proportion)
            /\ Len(test_data) = FloorOfProduct(n, test_proportion)
            /\ Len(train_data) = n - FloorOfProduct(n, val_proportion)
                                   - FloorOfProduct(n, test_proportion)
            /\ Len(parts) = n
            /\ \E p \in Perms(n) :
                  \A i \in 1..n : parts[i] = TableBlocks[p[i]]

====
